---- MODULE Spec2Model ----
(***************************************************************************)
(* Model of the finance dashboard front end:                               *)
(*   - AccountIndicator.jsx : getBalanceColor, getProgressValue, the       *)
(*     LinearProgress colour, and TransactionList.groupTransactionsByMonth *)
(*   - Dashboard.jsx        : filters, fetches, form, loading flag         *)
(*   - BalanceChart.jsx     : selected account and balance-history fetch   *)
(***************************************************************************)
EXTENDS Integers, Sequences, FiniteSets, TLC

VARIABLES
    \* AccountIndicator (one card)
    balance,          \* account.balance, the prop of the card
    card,             \* what the card rendered: colour, bar colour, progress
    \* TransactionList.groupTransactionsByMonth
    listProp,         \* the transactions prop handed to the grouping
    grouped,          \* the object it returns: insertion-ordered <<key, items>>
    groupedDone,      \* whether the grouping has run
    \* Dashboard
    mounted,          \* the component has mounted (first effect has run)
    transactions,     \* useState([])
    accounts,         \* useState([])
    openForm,         \* useState(false)
    filters,          \* useState({month, year, transactionType, category, accountId})
    loading,          \* useState(false)
    txInFlight,       \* pending fetches of /transactions/ : [id, url, by]
    accInFlight,      \* pending fetches of /accounts/ : ids
    txIssued,         \* number of /transactions/ fetches issued so far
    accIssued,        \* number of /accounts/ fetches issued so far
    console,          \* the messages console.error has been called with
    \* BalanceChart
    selectedAccount,  \* useState('')
    balanceHistory,   \* useState([])
    chartLoading,     \* useState(false) of BalanceChart
    histInFlight,     \* pending fetches of balance-history : [id, account]
    histIssued        \* number of balance-history fetches issued so far

indicatorVars == <<balance, card>>
listVars      == <<listProp, grouped, groupedDone>>
dashVars      == <<mounted, transactions, accounts, openForm, filters, loading,
                   txInFlight, accInFlight, txIssued, accIssued, console>>
chartVars     == <<selectedAccount, balanceHistory, chartLoading, histInFlight,
                   histIssued>>
vars          == <<indicatorVars, listVars, dashVars, chartVars>>

-----------------------------------------------------------------------------
(* Bounds of the model *)

\* balances range over -MaxBalance .. MaxBalance (whole currency units)
MaxBalance == 10000
\* longest transaction list handed to groupTransactionsByMonth
MaxTx == 3
\* most /transactions/ (and /accounts/) fetches the dashboard issues in a run
MaxFetches == 2
\* most balance-history fetches the chart issues in a run
MaxHistFetches == 2

-----------------------------------------------------------------------------
(* JavaScript values that are either a number or a string *)

Num(n) == [t |-> "number", n |-> n, s |-> ""]
Str(s) == [t |-> "string", n |-> 0, s |-> s]

\* JS truthiness of a number or string: 0 and '' are falsy
Truthy(v) == IF v.t = "number" THEN v.n # 0 ELSE v.s # ""

\* String(v), as URLSearchParams.append and template literals convert
ToStr(v) == IF v.t = "number" THEN ToString(v.n) ELSE v.s

Max(a, b) == IF a >= b THEN a ELSE b
Min(a, b) == IF a <= b THEN a ELSE b

-----------------------------------------------------------------------------
(* AccountIndicator *)

Balances == (0 - MaxBalance)..MaxBalance

getBalanceColor_ge(b) ==
    IF b >= 1000 THEN "success.main"
    ELSE IF b > 0 THEN "warning.main"
    ELSE "error.main"

getBalanceColor(b) ==
    IF b > 1000 THEN "success.main"
    ELSE IF b > 0 THEN "warning.main"
    ELSE "error.main"

\* color prop of LinearProgress
progressColor(b) ==
    IF b > 1000 THEN "success" ELSE IF b > 0 THEN "warning" ELSE "error"

\* const maxValue = 5000
maxValue == 5000
\* Progress values are kept as exact fractions: the integer p stands for
\* p / ProgressScale percent, so (balance / maxValue) * 100 is exact for
\* every whole balance.
ProgressScale == maxValue \div 100

getProgressValue_noFloor(b) ==
    Min(100 * ProgressScale, (b * 100 * ProgressScale) \div maxValue)

getProgressValue(b) ==
    Max(0, Min(100 * ProgressScale, (b * 100 * ProgressScale) \div maxValue))

NoCard == [rendered |-> FALSE, color |-> "", barColor |-> "", progress |-> 0]

\* one render of the card for the account it was given
AccountIndicator ==
    /\ ~card.rendered
    /\ card' = [rendered |-> TRUE,
                color    |-> getBalanceColor(balance),
                barColor |-> progressColor(balance),
                progress |-> getProgressValue(balance)]
    /\ UNCHANGED <<balance, listVars, dashVars, chartVars>>

-----------------------------------------------------------------------------
(* TransactionList.groupTransactionsByMonth *)

\* A transaction date is the parsed ISO date <<year, month, day>>.
Dates == { <<2023, 1, 9>>, <<2024, 1, 5>>, <<2024, 1, 20>>, <<2024, 2, 1>>,
           <<2023, 12, 31>> }

monthNames == <<"janeiro", "fevereiro", "março", "abril", "maio", "junho",
                "julho", "agosto", "setembro", "outubro", "novembro",
                "dezembro">>

\* new Date(d) as a number: order-preserving day count
getTime(d) == (d[1] * 12 + (d[2] - 1)) * 31 + (d[3] - 1)

\* format(date, 'MMMM yyyy', { locale: ptBR })
monthKey(d) == monthNames[d[2]] \o " " \o ToString(d[1])

\* the lists the component can be handed: ids are unique (server keys)
TxLists == UNION { { [i \in 1..n |-> [id |-> i, date |-> f[i]]] :
                       f \in [1..n -> Dates] } : n \in 0..MaxTx }

\* object property helpers; an object is its entries in insertion order
HasKey(obj, k) == \E i \in 1..Len(obj) : obj[i].key = k

\* grouped[k].push(t), creating grouped[k] = [] first when absent
PushTo(obj, k, t) ==
    IF HasKey(obj, k)
    THEN [i \in 1..Len(obj) |->
            IF obj[i].key = k
            THEN [key |-> k, items |-> Append(obj[i].items, t)]
            ELSE obj[i]]
    ELSE Append(obj, [key |-> k, items |-> <<t>>])

RECURSIVE scanGroups(_, _)
\* transactions.forEach(...) of lines 150-158, from the accumulator acc
scanGroups(txs, acc) ==
    IF txs = <<>> THEN acc
    ELSE scanGroups(Tail(txs), PushTo(acc, monthKey(Head(txs).date), Head(txs)))

\* insert t into a list already sorted by the comparator, after its equals
RECURSIVE insertSorted(_, _)
insertSorted(sorted, t) ==
    IF sorted = <<>> THEN <<t>>
    ELSE IF getTime(t.date) - getTime(Head(sorted).date) > 0
         THEN <<t>> \o sorted
         ELSE <<Head(sorted)>> \o insertSorted(Tail(sorted), t)

sortNewestFirst_none(items) == items

RECURSIVE sortNewestFirst(_)
\* items.sort((a, b) => new Date(b.date) - new Date(a.date)), a stable sort
sortNewestFirst(items) ==
    IF items = <<>> THEN <<>>
    ELSE insertSorted(sortNewestFirst(SubSeq(items, 1, Len(items) - 1)),
                      items[Len(items)])

groupTransactionsByMonth(txs) ==
    LET g == scanGroups(txs, <<>>)
    IN  [i \in 1..Len(g) |->
            [key |-> g[i].key, items |-> sortNewestFirst(g[i].items)]]

TransactionList ==
    /\ ~groupedDone
    /\ groupedDone' = TRUE
    /\ grouped' = groupTransactionsByMonth(listProp)
    /\ UNCHANGED <<listProp, indicatorVars, dashVars, chartVars>>

-----------------------------------------------------------------------------
(* Dashboard *)

\* new Date().getMonth() + 1 and new Date().getFullYear() at construction
Months == {3}
Years  == {2024}

\* what the Filters component and the form can put in each field
MonthValues   == {Str(""), Num(3), Num(12)}
YearValues    == {Str(""), Num(2024)}
TypeValues    == {Str(""), Str("entrada"), Str("saida")}
CategoryValues == {Str(""), Str("food")}
AccountValues == {Str(""), Num(1), Num(2)}

FilterSets == [month : MonthValues, year : YearValues,
               transactionType : TypeValues, category : CategoryValues,
               accountId : AccountValues]

\* the partial filter objects handed to onFiltersChange: a field set, a
\* field given the value it already has, and two fields at once (one set,
\* one cleared)
FilterChanges ==
    { [category |-> Str("food")], [transactionType |-> Str("")],
      [month |-> Num(12), year |-> Str("")] }

\* { ...a, ...b }
Spread(a, b) ==
    LET pick(k) == IF k \in DOMAIN b THEN b[k] ELSE a[k]
    IN  [month |-> pick("month"), year |-> pick("year"),
         transactionType |-> pick("transactionType"),
         category |-> pick("category"), accountId |-> pick("accountId")]

\* params.append(name, value) when the value is truthy
appendIf(params, name, v) ==
    IF Truthy(v) THEN Append(params, <<name, ToStr(v)>>) ELSE params

buildParams_always(f) ==
    <<<<"month", ToStr(f.month)>>, <<"year", ToStr(f.year)>>,
      <<"transaction_type", ToStr(f.transactionType)>>,
      <<"category", ToStr(f.category)>>,
      <<"account_id", ToStr(f.accountId)>>>>

\* lines 60-65: the URLSearchParams built from the filter set
buildParams(f) ==
    LET p1 == appendIf(<<>>, "month", f.month)
        p2 == appendIf(p1, "year", f.year)
        p3 == appendIf(p2, "transaction_type", f.transactionType)
        p4 == appendIf(p3, "category", f.category)
    IN  appendIf(p4, "account_id", f.accountId)

RECURSIVE paramsToString(_)
\* `${params}` : name=value pairs joined by &
paramsToString(params) ==
    IF params = <<>> THEN ""
    ELSE IF Len(params) = 1 THEN params[1][1] \o "=" \o params[1][2]
    ELSE params[1][1] \o "=" \o params[1][2] \o "&" \o paramsToString(Tail(params))

\* the query part of the URL fetched by loadTransactions
queryOf(f) == paramsToString(buildParams(f))

\* The API is outside the repository. Its answer to a /transactions/ query
\* is abstracted to one row tagged with the query it answers, so that the
\* rows shown can be told apart by the filter set they were fetched for.
ServerTransactions(url) == <<[id |-> 1, query |-> url]>>

\* the account lists /accounts/ may answer with (balances change over time)
AccountPayloads ==
    { <<[id |-> 1, balance |-> 100]>>,
      <<[id |-> 2, balance |-> 0], [id |-> 1, balance |-> 1500]>> }

\* the answer of /accounts/{id}/balance-history?days=30, tagged by account
ServerHistory(acc) == <<[date |-> <<2024, 1, 1>>, account |-> acc]>>

-----------------------------------------------------------------------------
(* BalanceChart *)

\* loadBalanceHistory, up to its first await, for the selected account sel
loadBalanceHistory(sel) ==
    IF ~Truthy(sel)
    THEN UNCHANGED <<chartLoading, histInFlight, histIssued>>
    ELSE /\ histIssued < MaxHistFetches
         /\ chartLoading' = TRUE
         /\ histIssued' = histIssued + 1
         /\ histInFlight' = histInFlight \cup
                             {[id |-> histIssued + 1, account |-> ToStr(sel)]}

\* useEffect(..., [selectedAccount]) after selectedAccount changed to sel
selectedAccountEffect(sel) ==
    IF Truthy(sel)
    THEN loadBalanceHistory(sel)
    ELSE UNCHANGED <<chartLoading, histInFlight, histIssued>>

\* useEffect(..., [accounts, selectedAccount]) after the accounts prop
\* changed to accs, followed by the effect of the selection it makes
accountsEffect(accs) ==
    IF Len(accs) > 0 /\ ~Truthy(selectedAccount)
    THEN /\ selectedAccount' = Num(accs[1].id)
         /\ selectedAccountEffect(selectedAccount')
    ELSE UNCHANGED <<selectedAccount, chartLoading, histInFlight, histIssued>>

\* Select onChange: setSelectedAccount(e.target.value), a menu item's id
SelectAccount(i) ==
    /\ mounted
    /\ i \in 1..Len(accounts)
    /\ Num(accounts[i].id) # selectedAccount
    /\ selectedAccount' = Num(accounts[i].id)
    /\ selectedAccountEffect(selectedAccount')
    /\ UNCHANGED <<balanceHistory, indicatorVars, listVars, dashVars>>

\* loadBalanceHistory after its awaits: the try branch
loadBalanceHistoryResolved(r) ==
    /\ r \in histInFlight
    /\ balanceHistory' = ServerHistory(r.account)
    /\ chartLoading' = FALSE
    /\ histInFlight' = histInFlight \ {r}
    /\ UNCHANGED <<selectedAccount, histIssued, indicatorVars, listVars, dashVars>>

loadBalanceHistoryRejected_keeps(r) ==
    /\ r \in histInFlight
    /\ console' = console \cup {"Erro ao carregar historico de saldo:"}
    /\ chartLoading' = FALSE
    /\ histInFlight' = histInFlight \ {r}
    /\ UNCHANGED <<selectedAccount, histIssued, balanceHistory,
                   indicatorVars, listVars,
                   mounted, transactions, accounts, openForm, filters, loading,
                   txInFlight, accInFlight, txIssued, accIssued>>

\* loadBalanceHistory after its awaits: the catch branch
loadBalanceHistoryRejected(r) ==
    /\ r \in histInFlight
    /\ console' = console \cup {"Erro ao carregar historico de saldo:"}
    /\ balanceHistory' = <<>>
    /\ chartLoading' = FALSE
    /\ histInFlight' = histInFlight \ {r}
    /\ UNCHANGED <<selectedAccount, histIssued, indicatorVars, listVars,
                   mounted, transactions, accounts, openForm, filters, loading,
                   txInFlight, accInFlight, txIssued, accIssued>>

-----------------------------------------------------------------------------
(* Dashboard: handlers *)

\* loadAccounts up to its first await
loadAccounts ==
    /\ accIssued < MaxFetches
    /\ accIssued' = accIssued + 1
    /\ accInFlight' = accInFlight \cup {accIssued + 1}

\* loadTransactions up to its first await, reading the filter set f; the
\* pending request notes the caller, which no handler reads
loadTransactions(f, caller) ==
    /\ txIssued < MaxFetches
    /\ loading' = TRUE
    /\ txIssued' = txIssued + 1
    /\ txInFlight' = txInFlight \cup
                      {[id |-> txIssued + 1, url |-> queryOf(f), by |-> caller]}

\* the body of useEffect(..., [filters]) in the render whose filters are f
filtersEffect(f) ==
    /\ loadAccounts
    /\ loadTransactions(f, "useEffect")

\* first render and its effect
Mount ==
    /\ ~mounted
    /\ mounted' = TRUE
    /\ filtersEffect(filters)
    /\ UNCHANGED <<transactions, accounts, openForm, filters, console,
                   indicatorVars, listVars, chartVars>>

handleFiltersChange_stale(newFilters) ==
    /\ mounted
    /\ filters' = Spread(filters, newFilters)
    /\ filtersEffect(filters)
    /\ UNCHANGED <<mounted, transactions, accounts, openForm, console,
                   indicatorVars, listVars, chartVars>>

\* setFilters({...filters, ...newFilters}); the new object re-runs the effect
handleFiltersChange(newFilters) ==
    /\ mounted
    /\ filters' = Spread(filters, newFilters)
    /\ filtersEffect(filters')
    /\ UNCHANGED <<mounted, transactions, accounts, openForm, console,
                   indicatorVars, listVars, chartVars>>

handleTransactionCreated_noAccounts ==
    /\ mounted
    /\ openForm
    /\ openForm' = FALSE
    /\ loadTransactions(filters, "handleTransactionCreated")
    /\ UNCHANGED <<mounted, transactions, accounts, filters, console,
                   accInFlight, accIssued,
                   indicatorVars, listVars, chartVars>>

handleTransactionCreated ==
    /\ mounted
    /\ openForm
    /\ openForm' = FALSE
    /\ loadTransactions(filters, "handleTransactionCreated")
    /\ loadAccounts
    /\ UNCHANGED <<mounted, transactions, accounts, filters, console,
                   indicatorVars, listVars, chartVars>>

\* Fab onClick
OpenForm ==
    /\ mounted
    /\ ~openForm
    /\ openForm' = TRUE
    /\ UNCHANGED <<mounted, transactions, accounts, filters, loading, txInFlight,
                   accInFlight, txIssued, accIssued, console,
                   indicatorVars, listVars, chartVars>>

\* Dialog onClose and the form's onClose
CloseForm ==
    /\ mounted
    /\ openForm
    /\ openForm' = FALSE
    /\ UNCHANGED <<mounted, transactions, accounts, filters, loading, txInFlight,
                   accInFlight, txIssued, accIssued, console,
                   indicatorVars, listVars, chartVars>>

\* loadAccounts after its awaits: setAccounts(data), then the chart's effects
loadAccountsResolved(id, data) ==
    /\ id \in accInFlight
    /\ accounts' = data
    /\ accInFlight' = accInFlight \ {id}
    /\ accountsEffect(accounts')
    /\ UNCHANGED <<mounted, transactions, openForm, filters, loading, txInFlight,
                   txIssued, accIssued, console, balanceHistory,
                   indicatorVars, listVars>>

\* loadAccounts after its awaits: the catch branch
loadAccountsRejected(id) ==
    /\ id \in accInFlight
    /\ console' = console \cup {"Erro ao carregar contas:"}
    /\ accInFlight' = accInFlight \ {id}
    /\ UNCHANGED <<mounted, transactions, accounts, openForm, filters, loading,
                   txInFlight, txIssued, accIssued,
                   indicatorVars, listVars, chartVars>>

loadTransactionsResolved_latestOnly(r) ==
    /\ r \in txInFlight
    /\ transactions' = IF r.id = txIssued THEN ServerTransactions(r.url)
                                          ELSE transactions
    /\ loading' = FALSE
    /\ txInFlight' = txInFlight \ {r}
    /\ UNCHANGED <<mounted, accounts, openForm, filters, accInFlight, txIssued,
                   accIssued, console, indicatorVars, listVars, chartVars>>

\* loadTransactions after its awaits: setTransactions(data), then finally
loadTransactionsResolved(r) ==
    /\ r \in txInFlight
    /\ transactions' = ServerTransactions(r.url)
    /\ loading' = FALSE
    /\ txInFlight' = txInFlight \ {r}
    /\ UNCHANGED <<mounted, accounts, openForm, filters, accInFlight, txIssued,
                   accIssued, console, indicatorVars, listVars, chartVars>>

loadTransactionsRejected_clears(r) ==
    /\ r \in txInFlight
    /\ console' = console \cup {"Erro ao carregar transacoes:"}
    /\ transactions' = <<>>
    /\ loading' = FALSE
    /\ txInFlight' = txInFlight \ {r}
    /\ UNCHANGED <<mounted, accounts, openForm, filters,
                   accInFlight, txIssued, accIssued,
                   indicatorVars, listVars, chartVars>>

\* loadTransactions after its awaits: the catch branch, then finally
loadTransactionsRejected(r) ==
    /\ r \in txInFlight
    /\ console' = console \cup {"Erro ao carregar transacoes:"}
    /\ loading' = FALSE
    /\ txInFlight' = txInFlight \ {r}
    /\ UNCHANGED <<mounted, transactions, accounts, openForm, filters,
                   accInFlight, txIssued, accIssued,
                   indicatorVars, listVars, chartVars>>

-----------------------------------------------------------------------------
(* Specifications *)

IndicatorIdle == balance = 0 /\ card = NoCard
ListIdle      == listProp = <<>> /\ grouped = <<>> /\ groupedDone = FALSE

\* Dashboard's useState initial values
DashIdle ==
    /\ mounted = FALSE
    /\ transactions = <<>>
    /\ accounts = <<>>
    /\ openForm = FALSE
    /\ \E m \in Months, y \in Years :
          filters = [month |-> Num(m), year |-> Num(y),
                     transactionType |-> Str(""), category |-> Str(""),
                     accountId |-> Str("")]
    /\ loading = FALSE
    /\ txInFlight = {}
    /\ accInFlight = {}
    /\ txIssued = 0
    /\ accIssued = 0
    /\ console = {}

\* BalanceChart's useState initial values
ChartIdle ==
    /\ selectedAccount = Str("")
    /\ balanceHistory = <<>>
    /\ chartLoading = FALSE
    /\ histInFlight = {}
    /\ histIssued = 0

\* the dashboard page
Init == IndicatorIdle /\ ListIdle /\ DashIdle /\ ChartIdle

FiltersChange  == \E nf \in FilterChanges : handleFiltersChange(nf)
Select         == \E i \in 1..Len(accounts) : SelectAccount(i)
AccountsOk     == \E id \in accInFlight, data \in AccountPayloads :
                     loadAccountsResolved(id, data)
AccountsFail   == \E id \in accInFlight : loadAccountsRejected(id)
TransactionsOk == \E r \in txInFlight : loadTransactionsResolved(r)
TransactionsFail == \E r \in txInFlight : loadTransactionsRejected(r)
HistoryOk      == \E r \in histInFlight : loadBalanceHistoryResolved(r)
HistoryFail    == \E r \in histInFlight : loadBalanceHistoryRejected(r)

Next ==
    \/ Mount
    \/ FiltersChange
    \/ handleTransactionCreated
    \/ OpenForm
    \/ CloseForm
    \/ AccountsOk
    \/ AccountsFail
    \/ TransactionsOk
    \/ TransactionsFail
    \/ Select
    \/ HistoryOk
    \/ HistoryFail

Spec == Init /\ [][Next]_vars

\* one account card rendered for each balance
InitIndicator ==
    /\ balance \in Balances
    /\ card = NoCard
    /\ ListIdle /\ DashIdle /\ ChartIdle

NextIndicator == AccountIndicator

SpecIndicator == InitIndicator /\ [][NextIndicator]_vars

\* the transaction list grouping each list it can be handed
InitList ==
    /\ listProp \in TxLists
    /\ grouped = <<>>
    /\ groupedDone = FALSE
    /\ IndicatorIdle /\ DashIdle /\ ChartIdle

NextList == TransactionList

SpecList == InitList /\ [][NextList]_vars

\* loadTransactions called once in a mounted dashboard, for each filter set
\* the filter handler can produce
InitQuery ==
    /\ mounted = TRUE
    /\ transactions = <<>>
    /\ accounts = <<>>
    /\ openForm = FALSE
    /\ filters \in FilterSets
    /\ loading = FALSE
    /\ txInFlight = {}
    /\ accInFlight = {}
    /\ txIssued = 0
    /\ accIssued = 0
    /\ console = {}
    /\ IndicatorIdle /\ ListIdle /\ ChartIdle

LoadTransactions ==
    /\ txIssued = 0
    /\ loadTransactions(filters, "useEffect")
    /\ UNCHANGED <<mounted, transactions, accounts, openForm, filters,
                   accInFlight, accIssued, console,
                   indicatorVars, listVars, chartVars>>

NextQuery == LoadTransactions

SpecQuery == InitQuery /\ [][NextQuery]_vars

-----------------------------------------------------------------------------
(* Properties of the account card (SpecIndicator) *)

\* C1: a rendered card's colour is success.main exactly when balance > 1000,
\* error.main exactly when balance <= 0 and warning.main otherwise, and the
\* progress bar has the colour of the same tier.
C1_ColorTier ==
    card.rendered =>
        /\ (card.color = "success.main") <=> (balance > 1000)
        /\ (card.color = "error.main") <=> (balance <= 0)
        /\ (card.color = "warning.main") <=> (balance > 0 /\ balance <= 1000)
        /\ card.color = card.barColor \o ".main"
        /\ (balance = 1000 => card.color = "warning.main")
        /\ (balance = 0 => card.color = "error.main")

C1_Witness ==
    /\ card.rendered
    /\ balance = 1000
    /\ card.color = "warning.main"
    /\ card.barColor = "warning"

\* C2: a rendered card's progress is clamp(balance / 5000 * 100, 0, 100):
\* 0 for balance <= 0, 100 for balance >= 5000, balance / 50 in between,
\* and always within [0, 100].
C2_Progress ==
    card.rendered =>
        /\ (balance <= 0 => card.progress = 0)
        /\ (balance >= 5000 => card.progress = 100 * ProgressScale)
        /\ (balance > 0 /\ balance < 5000 =>
                card.progress * 50 = balance * ProgressScale)
        /\ card.progress >= 0
        /\ card.progress <= 100 * ProgressScale
        /\ (balance = 2500 => card.progress = 50 * ProgressScale)
        /\ (balance = 10000 => card.progress = 100 * ProgressScale)
        /\ (balance = 0 - 100 => card.progress = 0)

C2_Witness ==
    /\ card.rendered
    /\ balance = 2500
    /\ card.progress = 50 * ProgressScale

-----------------------------------------------------------------------------
(* Properties of the grouping (SpecList) *)

\* the calendar month of a transaction, read off its date
MonthOf(t) == <<t.date[1], t.date[2]>>

\* the position in the input of the first transaction of group i
FirstSeen(i) ==
    CHOOSE n \in 1..Len(listProp) :
        /\ MonthOf(listProp[n]) = MonthOf(grouped[i].items[1])
        /\ \A m \in 1..(n - 1) : MonthOf(listProp[m]) # MonthOf(listProp[n])

\* the places <<group, position>> at which transaction t appears in the result
PlacesOf(t) ==
    { p \in UNION { { <<i, j>> : j \in 1..Len(grouped[i].items) } :
                      i \in 1..Len(grouped) } :
        grouped[p[1]].items[p[2]] = t }

\* C3: the groups come in the order in which their months are first met in
\* the input, every input transaction is in exactly one place, in the group
\* of its month, each group is ordered by date descending, and the empty
\* input gives the empty mapping.
C3_Grouping ==
    groupedDone =>
        /\ (listProp = <<>> => grouped = <<>>)
        /\ \A i \in 1..Len(grouped) : grouped[i].items # <<>>
        /\ \A i, j \in 1..Len(grouped) :
              i < j => /\ grouped[i].key # grouped[j].key
                       /\ FirstSeen(i) < FirstSeen(j)
        /\ \A n \in 1..Len(listProp) : Cardinality(PlacesOf(listProp[n])) = 1
        /\ \A i \in 1..Len(grouped) : \A j \in 1..Len(grouped[i].items) :
              /\ \E n \in 1..Len(listProp) : listProp[n] = grouped[i].items[j]
              /\ MonthOf(grouped[i].items[j]) = MonthOf(grouped[i].items[1])
        /\ \A i, j \in 1..Len(grouped) :
              i # j => MonthOf(grouped[i].items[1]) # MonthOf(grouped[j].items[1])
        /\ \A i \in 1..Len(grouped) : \A j, k \in 1..Len(grouped[i].items) :
              j < k => getTime(grouped[i].items[j].date) >=
                       getTime(grouped[i].items[k].date)

\* February met first, then two January transactions given oldest first
C3_Witness ==
    /\ groupedDone
    /\ Len(listProp) = 3
    /\ listProp[1].date = <<2024, 2, 1>>
    /\ listProp[2].date = <<2024, 1, 5>>
    /\ listProp[3].date = <<2024, 1, 20>>
    /\ Len(grouped) = 2
    /\ grouped[1].key = "fevereiro 2024"
    /\ grouped[2].key = "janeiro 2024"
    /\ grouped[2].items = <<listProp[3], listProp[2]>>

-----------------------------------------------------------------------------
(* Properties of the query string (SpecQuery) *)

\* the fields of a filter set with their parameter names, in the code's order
FieldParams(f) ==
    <<[name |-> "month", v |-> f.month], [name |-> "year", v |-> f.year],
      [name |-> "transaction_type", v |-> f.transactionType],
      [name |-> "category", v |-> f.category],
      [name |-> "account_id", v |-> f.accountId]>>

IsSet(p) == p.v # Str("")

RECURSIVE JoinSet(_)
\* name=value of the set fields, joined by &
JoinSet(ps) ==
    IF ps = <<>> THEN ""
    ELSE LET rest == JoinSet(Tail(ps))
             this == Head(ps).name \o "=" \o ToStr(Head(ps).v)
         IN  IF ~IsSet(Head(ps)) THEN rest
             ELSE IF rest = "" THEN this
             ELSE this \o "&" \o rest

\* C4: the query of the issued request has a parameter for a field exactly
\* when the field is set, named month, year, transaction_type, category,
\* account_id in that order; {month: 3, year: 2024} alone gives exactly
\* month=3&year=2024.
C4_Query ==
    \A r \in txInFlight :
        /\ r.url = JoinSet(FieldParams(filters))
        /\ LET ps == buildParams(filters)
               fp == FieldParams(filters)
           IN  /\ \A k \in 1..5 :
                     IsSet(fp[k]) <=> \E i \in 1..Len(ps) : ps[i][1] = fp[k].name
               /\ \A i \in 1..Len(ps) : \E k \in 1..5 :
                     /\ ps[i] = <<fp[k].name, ToStr(fp[k].v)>>
                     /\ \A j \in 1..(i - 1) : \E l \in 1..(k - 1) :
                           ps[j][1] = fp[l].name
        /\ (filters = [month |-> Num(3), year |-> Num(2024),
                       transactionType |-> Str(""), category |-> Str(""),
                       accountId |-> Str("")]
              => r.url = "month=3&year=2024")

C4_Witness ==
    /\ filters = [month |-> Num(3), year |-> Num(2024),
                  transactionType |-> Str(""), category |-> Str(""),
                  accountId |-> Str("")]
    /\ \E r \in txInFlight : r.url = "month=3&year=2024"

-----------------------------------------------------------------------------
(* Properties of the dashboard page (Spec) *)

\* this step issues exactly one /transactions/ fetch and cancels none
OneNewTransactionsFetch ==
    /\ txInFlight \subseteq txInFlight'
    /\ Cardinality(txInFlight' \ txInFlight) = 1
    /\ txIssued' = txIssued + 1

\* this step issues exactly one /accounts/ fetch and cancels none
OneNewAccountsFetch ==
    /\ accInFlight \subseteq accInFlight'
    /\ Cardinality(accInFlight' \ accInFlight) = 1
    /\ accIssued' = accIssued + 1

\* this step issues no fetch of the dashboard
NoNewFetch ==
    /\ txInFlight' \subseteq txInFlight
    /\ accInFlight' \subseteq accInFlight
    /\ txIssued' = txIssued
    /\ accIssued' = accIssued

\* C5: a reported creation closes the form, issues one new transactions
\* fetch and one new accounts fetch, and leaves the filter set unchanged.
C5_Created ==
    [][handleTransactionCreated =>
          /\ openForm' = FALSE
          /\ OneNewTransactionsFetch
          /\ OneNewAccountsFetch
          /\ filters' = filters]_vars

\* a creation reported while the fetches of the mount are still outstanding
C5_Witness ==
    /\ ~openForm
    /\ \E r \in txInFlight : r.by = "handleTransactionCreated"
    /\ \E r \in txInFlight : r.by = "useEffect"
    /\ Cardinality(accInFlight) = 2

\* C6: the mount and every filter change issue one new accounts fetch and
\* one new transactions fetch whose query is that of the new filter set, a
\* filter change keeps the fields it does not name, and opening or closing
\* the form issues no fetch.
C6_Refetch ==
    [][/\ (Mount \/ FiltersChange) =>
              /\ OneNewAccountsFetch
              /\ OneNewTransactionsFetch
              /\ \A r \in txInFlight' \ txInFlight :
                    r.url = JoinSet(FieldParams(filters'))
       /\ FiltersChange =>
              \E nf \in FilterChanges :
                 \A k \in {"month", "year", "transactionType", "category",
                            "accountId"} :
                    filters'[k] = IF k \in DOMAIN nf THEN nf[k] ELSE filters[k]
       /\ (OpenForm \/ CloseForm) => /\ NoNewFetch
                                      /\ txInFlight' = txInFlight
                                      /\ accInFlight' = accInFlight]_vars

\* the fetches issued by a change of category, for the new filter set
C6_Witness ==
    /\ mounted
    /\ filters.category = Str("food")
    /\ filters.month = Num(3)
    /\ 2 \in accInFlight
    /\ \E r \in txInFlight :
          /\ r.id = 2
          /\ r.by = "useEffect"
          /\ r.url = "month=3&year=2024&category=food"

\* C7: a failed accounts or transactions fetch leaves accounts and
\* transactions as they were and issues no fetch.
C7_FailureKeeps ==
    [][(TransactionsFail \/ AccountsFail) =>
          /\ transactions' = transactions
          /\ accounts' = accounts
          /\ NoNewFetch]_vars

\* both kinds of fetch have failed and the loaded data is still shown
C7_Witness ==
    /\ "Erro ao carregar transacoes:" \in console
    /\ "Erro ao carregar contas:" \in console
    /\ transactions # <<>>
    /\ accounts # <<>>
    /\ txInFlight = {}
    /\ accInFlight = {}
    /\ ~loading

\* C8 as stated: a failed fetch leaves accounts as they were and resets
\* transactions and balance history to empty.
C8_AsClaimed ==
    [][/\ AccountsFail => accounts' = accounts
       /\ TransactionsFail => transactions' = <<>>
       /\ HistoryFail => balanceHistory' = <<>>]_vars

\* C8 amended: a failed fetch leaves accounts and transactions as they
\* were and resets only the balance history to empty.
C8_FailureByResource ==
    [][/\ AccountsFail => accounts' = accounts
       /\ TransactionsFail => transactions' = transactions
       /\ HistoryFail => balanceHistory' = <<>>]_vars

\* each resource has had a failed fetch; only the history is empty
C8_Witness ==
    /\ "Erro ao carregar historico de saldo:" \in console
    /\ "Erro ao carregar transacoes:" \in console
    /\ "Erro ao carregar contas:" \in console
    /\ balanceHistory = <<>>
    /\ histIssued = 2
    /\ histInFlight = {}
    /\ transactions # <<>>
    /\ accounts # <<>>

\* C9: a filter change adds a transactions fetch and cancels none, and
\* every successful response is written to transactions when it arrives.
C9_NoCancel ==
    [][/\ FiltersChange => /\ txInFlight \subseteq txInFlight'
                           /\ Cardinality(txInFlight' \ txInFlight) = 1
       /\ TransactionsOk =>
              \E r \in txInFlight \ txInFlight' :
                 transactions' = ServerTransactions(r.url)]_vars

\* no fetch is outstanding, none has failed, and the rows shown are those
\* of the filter set before the last change
C9_Witness ==
    /\ txInFlight = {}
    /\ console = {}
    /\ txIssued = 2
    /\ ~loading
    /\ transactions = ServerTransactions("month=3&year=2024")
    /\ JoinSet(FieldParams(filters)) = "month=3&year=2024&category=food"

\* C10: the loading flag is true exactly when some transactions fetch is
\* outstanding.
C10_LoadingIffOutstanding == loading <=> (txInFlight # {})

====
